---- MODULE Spec2Model ----
(***************************************************************************)
(* Model of the graph-relationship engine of designtech-graph:             *)
(*   - the edge builders of src/src/utils.js (buildCompanyEdges,           *)
(*     buildInteroperabilityEdges) as pure functions,                      *)
(*   - the initial load of src/src/initialElements.js,                     *)
(*   - the session handlers of src/src/App.jsx that change the edge set    *)
(*     (toggleEdgeMode / rebuildEdges, onConnect).                         *)
(*                                                                         *)
(* JavaScript strings that the code compares, sorts, splits or             *)
(* concatenates (node ids, edge ids, the Interoperability cell) are        *)
(* sequences of one-character strings; an optional value (a field that may *)
(* be undefined) is a sequence of length 0 (undefined) or 1 (the value).   *)
(***************************************************************************)
EXTENDS Integers, Sequences, FiniteSets, TLC

VARIABLES
    rawData,    \* the dataset (data.json): a sequence of records
    nodes,      \* the node store / the node list handed to a builder
    edges,      \* the active edge set (useEdgesState)
    edgeMode,   \* "company" | "interoperability" (useState)
    connects,   \* number of onConnect events of the session so far
    lastOp,     \* the handler that ran last
    result,     \* what the last direct call of an edge builder returned
    selectedNodeId,         \* useState(null): undefined, or the id clicked last
    interoperabilityOrder,  \* useState(1): the hop limit, 1 or 2
    now,                    \* the reading of the clock, +new Date()
    initialized,            \* useNodesInitialized()
    memo,                   \* the snapshot the exposed toggle closes over, 0 if no
                            \* toggle is exposed
    snaps,                  \* the solver node snapshots taken so far (const nodes of
                            \* each computation of the layout hook's useMemo)
    runningRef,             \* runningRef.current
    draggingNodeRef,        \* draggingNodeRef.current: undefined, or the dragged node
    frames,                 \* the callbacks handed to window.requestAnimationFrame
    inFrame,                \* how many callbacks of the current frame are still to run
    geom,                   \* the arguments and the result of a call of getEdgePosition
    activeTypes             \* useState(new Set(...)): the node types shown

sessionVars == <<rawData, nodes, edges, edgeMode, connects, lastOp, result>>

viewVars == <<selectedNodeId, interoperabilityOrder>>

layoutVars == <<now, initialized, memo, snaps, runningRef, draggingNodeRef, frames,
                inFrame>>

geomVars == <<geom>>

filterVars == <<activeTypes>>

vars == <<sessionVars, viewVars, layoutVars, geomVars, filterVars>>

-----------------------------------------------------------------------------
(* Optional values *)

Undefined == <<>>

Def(x) == <<x>>

IsDef(o) == Len(o) = 1

Val(o) == o[1]

-----------------------------------------------------------------------------
(* JavaScript strings as sequences of characters *)

\* UTF-16 code units of the characters the model uses
CharCode ==
    [c \in {" ", ",", "-", "A", "B", "C", "a", "b", "c", "e", "r", "t", "u"} |->
        CASE c = "r" -> 114
          [] c = "t" -> 116
          [] c = "u" -> 117
          [] c = " " -> 32
          [] c = "," -> 44
          [] c = "-" -> 45
          [] c = "A" -> 65
          [] c = "B" -> 66
          [] c = "C" -> 67
          [] c = "a" -> 97
          [] c = "b" -> 98
          [] c = "c" -> 99
          [] c = "e" -> 101]

\* String.prototype.toLowerCase, per character
LowerChar(c) ==
    CASE c = "A" -> "a"
      [] c = "B" -> "b"
      [] c = "C" -> "c"
      [] OTHER -> c

toLowerCase(s) == [i \in 1..Len(s) |-> LowerChar(s[i])]

\* s < t on JavaScript strings: code-unit lexicographic order
RECURSIVE StrLess(_, _)
StrLess(s, t) ==
    IF t = <<>> THEN FALSE
    ELSE IF s = <<>> THEN TRUE
    ELSE IF s[1] = t[1] THEN StrLess(Tail(s), Tail(t))
    ELSE CharCode[s[1]] < CharCode[t[1]]

\* String.prototype.trim for the blank the model uses
RECURSIVE TrimStart(_)
TrimStart(s) ==
    IF s # <<>> /\ s[1] = " " THEN TrimStart(Tail(s)) ELSE s

RECURSIVE TrimEnd(_)
TrimEnd(s) ==
    IF s # <<>> /\ s[Len(s)] = " " THEN TrimEnd(SubSeq(s, 1, Len(s) - 1)) ELSE s

trim(s) == TrimEnd(TrimStart(s))

\* String.prototype.split(','): cur is the piece being read
RECURSIVE SplitFrom(_, _)
SplitFrom(s, cur) ==
    IF s = <<>> THEN <<cur>>
    ELSE IF s[1] = "," THEN <<cur>> \o SplitFrom(Tail(s), <<>>)
    ELSE SplitFrom(Tail(s), Append(cur, s[1]))

split(s) == SplitFrom(s, <<>>)

Elems(seq) == {seq[i] : i \in 1..Len(seq)}

\* Array.from(new Set(list)): first occurrences, in order
RECURSIVE Unique(_)
Unique(list) ==
    IF list = <<>> THEN <<>>
    ELSE LET init == Unique(SubSeq(list, 1, Len(list) - 1))
             x == list[Len(list)]
         IN IF x \in Elems(init) THEN init ELSE Append(init, x)

\* the type strings of the model, and toLowerCase on them
TypeLower(t) ==
    CASE t = "Company" -> "company"
      [] t = "COMPANY" -> "company"
      [] t = "Tool" -> "tool"
      [] t = "Filformat" -> "filformat"
      [] OTHER -> t

-----------------------------------------------------------------------------
(* Edge builders (src/src/utils.js) *)

\* variant of SortPair that leaves the pair in call order
SortPairUnsorted(a, b) == <<a, b>>

\* [a, b].sort(): default sort, by string comparison

SortPair(a, b) == IF StrLess(b, a) THEN <<b, a>> ELSE <<a, b>>

\* `e-${id1}-${id2}` of the sorted pair
EdgeId(a, b) ==
    LET p == SortPair(a, b) IN <<"e", "-">> \o p[1] \o <<"-">> \o p[2]

\* hidden is the truth value of the field: false for an object made without it
FloatingEdge(id, source, target) ==
    [id |-> id, source |-> source, target |-> target, type |-> "floating",
     hidden |-> FALSE]

NodeIds(ns) == {ns[i].id : i \in 1..Len(ns)}

\* node.data.type && node.data.type.toLowerCase() === 'company'
IsCompany(node) ==
    IsDef(node.type) /\ Val(node.type) # "" /\ TypeLower(Val(node.type)) = "company"

\* the Map built by rawData.forEach: a later record of the same Name overwrites
RECURSIVE DesignMap(_)
DesignMap(data) ==
    IF data = <<>> THEN <<>>
    ELSE LET m == DesignMap(SubSeq(data, 1, Len(data) - 1))
             item == data[Len(data)]
         IN IF IsDef(item.Designtechs) /\ Len(Val(item.Designtechs)) > 0
            THEN [n \in DOMAIN m \cup {item.Name} |->
                     IF n = item.Name THEN Unique(Val(item.Designtechs)) ELSE m[n]]
            ELSE m

\* designMap.get(id) || []
MapGetOrEmpty(m, id) == IF id \in DOMAIN m THEN m[id] ELSE <<>>

\* variant of ResolveTechs that prefers the dataset's list
ResolveTechsDatasetFirst(node, designMap) ==
    IF node.id \in DOMAIN designMap THEN designMap[node.id]
    ELSE IF IsDef(node.designtechs) THEN Val(node.designtechs) ELSE <<>>

\* node.data.designtechs && node.data.designtechs.length
\*     ? node.data.designtechs : (designMap.get(node.id) || [])

ResolveTechs(node, designMap) ==
    IF IsDef(node.designtechs) /\ Len(Val(node.designtechs)) > 0
    THEN Val(node.designtechs)
    ELSE MapGetOrEmpty(designMap, node.id)

\* variant of Emit without the self-reference guard
EmitNoSelfGuard(acc, nodeIds, from, to) ==
    IF to \in nodeIds
    THEN LET edgeId == EdgeId(from, to)
         IN IF edgeId \in acc.edgeSet THEN acc
            ELSE [edges |-> Append(acc.edges, FloatingEdge(edgeId, from, to)),
                  edgeSet |-> acc.edgeSet \cup {edgeId}]
    ELSE acc

\* one pass of techs.forEach / interops.forEach; acc = [edges, edgeSet]
Emit(acc, nodeIds, from, to) ==
    IF to \in nodeIds /\ to # from
    THEN LET edgeId == EdgeId(from, to)
         IN IF edgeId \in acc.edgeSet THEN acc
            ELSE [edges |-> Append(acc.edges, FloatingEdge(edgeId, from, to)),
                  edgeSet |-> acc.edgeSet \cup {edgeId}]
    ELSE acc

RECURSIVE EmitAll(_, _, _, _)
EmitAll(acc, nodeIds, from, list) ==
    IF list = <<>> THEN acc
    ELSE EmitAll(Emit(acc, nodeIds, from, list[1]), nodeIds, from, Tail(list))

\* connectionCount: one increment for the source and one for the target of every edge
Increment(cc, id) ==
    [n \in DOMAIN cc \cup {id} |->
        IF n = id THEN (IF id \in DOMAIN cc THEN cc[id] ELSE 0) + 1 ELSE cc[n]]

\* variant of CountConnections that counts sources only
RECURSIVE CountConnectionsSourceOnly(_)
CountConnectionsSourceOnly(es) ==
    IF es = <<>> THEN <<>>
    ELSE Increment(CountConnectionsSourceOnly(SubSeq(es, 1, Len(es) - 1)),
                   es[Len(es)].source)

RECURSIVE CountConnections(_)
CountConnections(es) ==
    IF es = <<>> THEN <<>>
    ELSE LET cc == CountConnections(SubSeq(es, 1, Len(es) - 1))
             edge == es[Len(es)]
         IN Increment(Increment(cc, edge.source), edge.target)

\* variant of CompanyLoop without the isCompany check
RECURSIVE CompanyLoopNoKindCheck(_, _, _, _)
CompanyLoopNoKindCheck(acc, ns, nodeIds, designMap) ==
    IF ns = <<>> THEN acc
    ELSE CompanyLoopNoKindCheck(
             EmitAll(acc, nodeIds, ns[1].id, ResolveTechs(ns[1], designMap)),
             Tail(ns), nodeIds, designMap)

\* positionedNodes.forEach of buildCompanyEdges
RECURSIVE CompanyLoop(_, _, _, _)
CompanyLoop(acc, ns, nodeIds, designMap) ==
    IF ns = <<>> THEN acc
    ELSE LET node == ns[1]
             next == IF ~IsCompany(node) THEN acc
                     ELSE EmitAll(acc, nodeIds, node.id, ResolveTechs(node, designMap))
         IN CompanyLoop(next, Tail(ns), nodeIds, designMap)

buildCompanyEdges(positionedNodes, data) ==
    LET acc == CompanyLoop([edges |-> <<>>, edgeSet |-> {}], positionedNodes,
                           NodeIds(positionedNodes), DesignMap(data))
    IN [edges |-> acc.edges, connectionCount |-> CountConnections(acc.edges)]

\* item.Interoperability.split(',').map(s => s.trim()).filter(Boolean)
ParseInterop(s) ==
    LET pieces == split(s)
        trimmed == [i \in 1..Len(pieces) |-> trim(pieces[i])]
    IN SelectSeq(trimmed, LAMBDA t : t # <<>>)

RECURSIVE InteropMap(_)
InteropMap(data) ==
    IF data = <<>> THEN <<>>
    ELSE LET m == InteropMap(SubSeq(data, 1, Len(data) - 1))
             item == data[Len(data)]
         IN IF IsDef(item.Interoperability) /\ Val(item.Interoperability) # <<>>
            THEN LET list == ParseInterop(Val(item.Interoperability))
                 IN IF Len(list) > 0
                    THEN [n \in DOMAIN m \cup {item.Name} |->
                             IF n = item.Name THEN list ELSE m[n]]
                    ELSE m
            ELSE m

\* positionedNodes.forEach of buildInteroperabilityEdges
RECURSIVE InteropLoop(_, _, _, _)
InteropLoop(acc, ns, nodeIds, interopMap) ==
    IF ns = <<>> THEN acc
    ELSE LET node == ns[1]
             next == IF IsCompany(node) THEN acc
                     ELSE EmitAll(acc, nodeIds, node.id,
                                  MapGetOrEmpty(interopMap, node.id))
         IN InteropLoop(next, Tail(ns), nodeIds, interopMap)

buildInteroperabilityEdges(positionedNodes, data) ==
    LET acc == InteropLoop([edges |-> <<>>, edgeSet |-> {}], positionedNodes,
                           NodeIds(positionedNodes), InteropMap(data))
    IN [edges |-> acc.edges, connectionCount |-> CountConnections(acc.edges)]

-----------------------------------------------------------------------------
(* The state of the parts a specification leaves alone *)

\* nothing selected, hop limit 1 (the useState defaults)
ViewAtRest == selectedNodeId = Undefined /\ interoperabilityOrder = 1

\* the layout hook before its first computation: both refs at their useRef defaults,
\* no frame callback requested
LayoutAtRest ==
    /\ now = 0
    /\ initialized = FALSE
    /\ memo = 0
    /\ snaps = <<>>
    /\ runningRef = FALSE
    /\ draggingNodeRef = Undefined
    /\ frames = <<>>
    /\ inFrame = 0

\* no call of getEdgePosition
GeomAtRest == geom = <<>>

\* Array.from(new Set(nodes.map(n => n.data.type))): the types of the node store
allTypes == {nodes[i].type : i \in 1..Len(nodes)}

\* useState(new Set(allTypes.map(t => t.type))) at the first render: every type of
\* the initial nodes is shown
FilterAtRest == activeTypes = allTypes

-----------------------------------------------------------------------------
(* Inputs of the direct builder calls *)

MaxRecords == 2

nA == <<"A">>
nB == <<"B">>
na == <<"a">>

NamePool == {nA, nB, na}

Node(id, type, designtechs) ==
    [id |-> id, label |-> id, type |-> type, designtechs |-> designtechs,
     size |-> Undefined, hidden |-> FALSE]

Record(name, type, designtechs, interoperability) ==
    [Name |-> name, Type |-> type, Designtechs |-> designtechs,
     Interoperability |-> interoperability]

\* the ids of a node list: any order, an id possibly more than once
IdSeqs == UNION {[1..k -> NamePool] : k \in 0..Cardinality(NamePool)}

NodeLists(types, overrides) ==
    UNION {{[i \in 1..Len(s) |-> Node(s[i], t[i], o[i])] :
               t \in [1..Len(s) -> types], o \in [1..Len(s) -> overrides]} :
           s \in IdSeqs}

SeqsUpTo(S, n) == UNION {[1..k -> S] : k \in 0..n}

\* company-mode inputs with per-node override lists
OverrideNodes ==
    NodeLists({Def("Company"), Def("company"), Def("tool")},
              {Def(<<>>), Def(<<nB, nB>>), Def(<<na, nA>>)})

OverrideDatasets ==
    {<<>>} \cup {<<Record(n, "Company", Def(<<na, nB>>), Undefined)>> : n \in NamePool}

\* inputs without override lists
PlainNodes == NodeLists({Def("Company"), Def("tool")}, {Undefined})

UsageRecords ==
    {Record(n, "Company", Def(l), Undefined) :
        n \in NamePool, l \in {<<nA, nA>>, <<na>>, <<nB, nA>>}}
    \cup {Record(nA, "Company", Undefined, Undefined)}

InteropRecords ==
    {Record(n, "tool", Undefined, Def(s)) :
        n \in NamePool,
        s \in {<<"B", ",", " ", "a">>, <<"A", ",", "A">>,
               <<" ", "a", " ", ",", ",", "B", " ">>}}
    \cup {Record(nA, "tool", Undefined, Def(<<" ", ",">>))}

NoResult == [edges |-> <<>>, connectionCount |-> <<>>]

InitBuild ==
    /\ \/ nodes \in OverrideNodes /\ rawData \in OverrideDatasets
          /\ edgeMode = "company"
       \/ nodes \in PlainNodes /\ rawData \in SeqsUpTo(UsageRecords, MaxRecords)
          /\ edgeMode = "company"
       \/ nodes \in PlainNodes /\ rawData \in SeqsUpTo(InteropRecords, MaxRecords)
          /\ edgeMode = "interoperability"
    /\ edges = <<>>
    /\ connects = 0
    /\ lastOp = "input"
    /\ result = NoResult
    /\ ViewAtRest /\ LayoutAtRest /\ GeomAtRest /\ FilterAtRest

CallBuildCompanyEdges ==
    /\ lastOp = "input"
    /\ edgeMode = "company"
    /\ result' = buildCompanyEdges(nodes, rawData)
    /\ lastOp' = "built"
    /\ UNCHANGED <<rawData, nodes, edges, edgeMode, connects>>
    /\ UNCHANGED <<viewVars, layoutVars, geomVars, filterVars>>

CallBuildInteroperabilityEdges ==
    /\ lastOp = "input"
    /\ edgeMode # "company"
    /\ result' = buildInteroperabilityEdges(nodes, rawData)
    /\ lastOp' = "built"
    /\ UNCHANGED <<rawData, nodes, edges, edgeMode, connects>>
    /\ UNCHANGED <<viewVars, layoutVars, geomVars, filterVars>>

NextBuild == CallBuildCompanyEdges \/ CallBuildInteroperabilityEdges

SpecBuild == InitBuild /\ [][NextBuild]_vars

-----------------------------------------------------------------------------
(* Initial load (src/src/initialElements.js) *)

\* sortedNodes of arrangeNodes: a stable sort by data.label, lower-cased, compared
\* with localeCompare (alphabetical on the letters the model uses)
RECURSIVE InsertByLabel(_, _)
InsertByLabel(sorted, node) ==
    IF sorted = <<>> THEN <<node>>
    ELSE LET last == sorted[Len(sorted)]
         IN IF StrLess(toLowerCase(node.label), toLowerCase(last.label))
            THEN Append(InsertByLabel(SubSeq(sorted, 1, Len(sorted) - 1), node), last)
            ELSE Append(sorted, node)

RECURSIVE arrangeNodes(_)
arrangeNodes(ns) ==
    IF ns = <<>> THEN <<>>
    ELSE InsertByLabel(arrangeNodes(SubSeq(ns, 1, Len(ns) - 1)), ns[Len(ns)])

\* rawData.filter(item => item.Type.toLowerCase() !== 'filformat')
filteredData(data) == SelectSeq(data, LAMBDA item : TypeLower(item.Type) # "filformat")

\* filteredData.map(item => ({id: item.Name, data: {label, type, designtechs || []}}))
DataNode(item) ==
    Node(item.Name, Def(item.Type),
         IF IsDef(item.Designtechs) THEN item.Designtechs ELSE Def(<<>>))

\* node.data.designtechs.forEach: an edge e-<company>-<tech> for every listed node
RECURSIVE InitialTechEdges(_, _, _)
InitialTechEdges(node, nodeIds, techs) ==
    IF techs = <<>> THEN <<>>
    ELSE (IF techs[1] \in nodeIds
          THEN <<FloatingEdge(<<"e", "-">> \o node.id \o <<"-">> \o techs[1],
                              node.id, techs[1])>>
          ELSE <<>>)
         \o InitialTechEdges(node, nodeIds, Tail(techs))

RECURSIVE InitialEdges(_, _)
InitialEdges(ns, nodeIds) ==
    IF ns = <<>> THEN <<>>
    ELSE (IF TypeLower(Val(ns[1].type)) = "company" /\ IsDef(ns[1].designtechs)
          THEN InitialTechEdges(ns[1], nodeIds, Val(ns[1].designtechs))
          ELSE <<>>)
         \o InitialEdges(Tail(ns), nodeIds)

\* connectionCount[id] || 1
SizeOf(cc, id) == IF id \in DOMAIN cc /\ cc[id] # 0 THEN cc[id] ELSE 1

WithSizes(ns, cc) ==
    [i \in 1..Len(ns) |-> [ns[i] EXCEPT !.size = Def(SizeOf(cc, ns[i].id))]]

initialElements(data) ==
    LET fd == filteredData(data)
        positionedNodes == arrangeNodes([i \in 1..Len(fd) |-> DataNode(fd[i])])
        es == InitialEdges(positionedNodes, NodeIds(positionedNodes))
    IN [nodes |-> WithSizes(positionedNodes, CountConnections(es)), edges |-> es]

-----------------------------------------------------------------------------
(* The session (src/src/App.jsx) *)

MaxConnects == 1

MaxSessionRecords == 3

\* the records a session's dataset is drawn from
SessionRecords ==
    {Record(nB, "Company", Def(<<nA, nA, na>>), Undefined),
     Record(na, "company", Def(<<nB, nA>>), Def(<<"A">>)),
     Record(nA, "tool", Undefined, Def(<<"B", ",", " ", "a">>)),
     Record(na, "Tool", Def(<<nB>>), Def(<<"A", ",", "A">>)),
     Record(nB, "tool", Undefined, Def(<<" ", "a", " ", ",", ",", "A", " ">>)),
     Record(nA, "Filformat", Undefined, Undefined)}

Init ==
    /\ rawData \in SeqsUpTo(SessionRecords, MaxSessionRecords)
    /\ nodes = initialElements(rawData).nodes
    /\ edges = initialElements(rawData).edges
    /\ edgeMode = "company"
    /\ connects = 0
    /\ lastOp = "load"
    /\ result = NoResult
    /\ ViewAtRest /\ LayoutAtRest /\ GeomAtRest /\ FilterAtRest

\* rebuildEdges(mode, currentNodes): the new node store and the new edge set
rebuildEdges(mode, currentNodes) ==
    LET built == IF mode = "company"
                 THEN buildCompanyEdges(currentNodes, rawData)
                 ELSE buildInteroperabilityEdges(currentNodes, rawData)
    IN [nodes |-> WithSizes(nodes, built.connectionCount), edges |-> built.edges]

\* variant of toggleEdgeMode that appends to the edge set instead of replacing it
toggleEdgeModeKeepingEdges ==
    LET next == IF edgeMode = "company" THEN "interoperability" ELSE "company"
        rebuilt == rebuildEdges(next, nodes)
    IN /\ edgeMode' = next
       /\ nodes' = rebuilt.nodes
       /\ edges' = edges \o rebuilt.edges
       /\ lastOp' = "toggle"
       /\ UNCHANGED <<rawData, connects, result>>
       /\ UNCHANGED <<viewVars, layoutVars, geomVars, filterVars>>

\* toggleEdgeMode: setEdgeMode(next); setEdges([]); rebuildEdges(next)
toggleEdgeMode ==
    LET next == IF edgeMode = "company" THEN "interoperability" ELSE "company"
        rebuilt == rebuildEdges(next, nodes)
    IN /\ edgeMode' = next
       /\ nodes' = rebuilt.nodes
       /\ edges' = rebuilt.edges
       /\ lastOp' = "toggle"
       /\ UNCHANGED <<rawData, connects, result>>
       /\ UNCHANGED <<viewVars, layoutVars, geomVars, filterVars>>

\* setEdges(eds => addEdge({...params, type: 'floating'}, eds)), with addEdge of
\* @xyflow/react: no second edge
\* for the same source and target, else a new edge xy-edge__<source>-<target>
addEdge(source, target, eds) ==
    IF \E i \in 1..Len(eds) : eds[i].source = source /\ eds[i].target = target
    THEN eds
    ELSE Append(eds, FloatingEdge(<<"x", "y", "-", "e", "d", "g", "e", "_", "_">>
                                      \o source \o <<"-">> \o target,
                                  source, target))

\* a connection the user draws from one node to another
onConnect(source, target) ==
    /\ source # target
    /\ connects < MaxConnects
    /\ connects' = connects + 1
    /\ edges' = addEdge(source, target, edges)
    /\ lastOp' = "connect"
    /\ UNCHANGED <<rawData, nodes, edgeMode, result>>
    /\ UNCHANGED <<viewVars, layoutVars, geomVars, filterVars>>

Next ==
    \/ toggleEdgeMode
    \/ \E source, target \in NodeIds(nodes) : onConnect(source, target)

Spec == Init /\ [][Next]_vars

-----------------------------------------------------------------------------
(* Selection and neighbourhood highlighting (src/src/App.jsx, LayoutFlow) *)

\* if (selectedNodeId): null and the empty string are falsy
HasSelection == IsDef(selectedNodeId) /\ Val(selectedNodeId) # <<>>

\* variant of FirstOrder that looks at the source of an edge only
RECURSIVE FirstOrderSourceOnly(_, _)
FirstOrderSourceOnly(es, sel) ==
    IF es = <<>> THEN [nodes |-> {}, edges |-> {}]
    ELSE LET acc == FirstOrderSourceOnly(SubSeq(es, 1, Len(es) - 1), sel)
             edge == es[Len(es)]
         IN IF edge.source = sel
            THEN [nodes |-> acc.nodes \cup {edge.source, edge.target},
                  edges |-> acc.edges \cup {edge.id}]
            ELSE acc

\* the first edges.forEach: the direct connections of sel
RECURSIVE FirstOrder(_, _)
FirstOrder(es, sel) ==
    IF es = <<>> THEN [nodes |-> {}, edges |-> {}]
    ELSE LET acc == FirstOrder(SubSeq(es, 1, Len(es) - 1), sel)
             edge == es[Len(es)]
         IN IF edge.source = sel \/ edge.target = sel
            THEN [nodes |-> acc.nodes \cup {edge.source, edge.target},
                  edges |-> acc.edges \cup {edge.id}]
            ELSE acc

\* variant of SecondOrder that collects both endpoints of an indirect edge
RECURSIVE SecondOrderBothEndpoints(_, _, _)
SecondOrderBothEndpoints(es, sel, first) ==
    IF es = <<>> THEN [nodes |-> {}, edges |-> {}]
    ELSE LET acc == SecondOrderBothEndpoints(SubSeq(es, 1, Len(es) - 1), sel, first)
             edge == es[Len(es)]
             isConnectedToFirst == edge.source \in first \/ edge.target \in first
             isDirect == edge.source = sel \/ edge.target = sel
         IN IF isConnectedToFirst /\ ~isDirect
            THEN [nodes |-> acc.nodes \cup {edge.source, edge.target},
                  edges |-> acc.edges \cup {edge.id}]
            ELSE acc

\* the second edges.forEach: first is firstOrderNodes
RECURSIVE SecondOrder(_, _, _)
SecondOrder(es, sel, first) ==
    IF es = <<>> THEN [nodes |-> {}, edges |-> {}]
    ELSE LET acc == SecondOrder(SubSeq(es, 1, Len(es) - 1), sel, first)
             edge == es[Len(es)]
             isConnectedToFirst == edge.source \in first \/ edge.target \in first
             isDirect == edge.source = sel \/ edge.target = sel
         IN IF isConnectedToFirst /\ ~isDirect
            THEN [nodes |-> acc.nodes
                              \cup (IF edge.source \notin first THEN {edge.source} ELSE {})
                              \cup (IF edge.target \notin first THEN {edge.target} ELSE {}),
                  edges |-> acc.edges \cup {edge.id}]
            ELSE acc

\* the four sets of a render
firstOrderNodes ==
    IF HasSelection THEN FirstOrder(edges, Val(selectedNodeId)).nodes ELSE {}

firstOrderEdges ==
    IF HasSelection THEN FirstOrder(edges, Val(selectedNodeId)).edges ELSE {}

secondOrderNodes ==
    IF HasSelection /\ interoperabilityOrder = 2
    THEN SecondOrder(edges, Val(selectedNodeId), firstOrderNodes).nodes
    ELSE {}

secondOrderEdges ==
    IF HasSelection /\ interoperabilityOrder = 2
    THEN SecondOrder(edges, Val(selectedNodeId), firstOrderNodes).edges
    ELSE {}

\* opacities in hundredths: 1, 0.5, 0.1 for nodes and 1, 0.35, 0.05 for edges
Styled(x, opacity) == [id |-> x.id, opacity |-> opacity, isDimmed |-> opacity < 100]

\* variant of styledNodes that classifies also when nothing is selected
styledNodesAlwaysClassified ==
    [i \in 1..Len(nodes) |->
        Styled(nodes[i],
               IF nodes[i].id \in firstOrderNodes THEN 100
               ELSE IF interoperabilityOrder = 2 /\ nodes[i].id \in secondOrderNodes
                    THEN 50
                    ELSE 10)]

styledNodes ==
    [i \in 1..Len(nodes) |->
        Styled(nodes[i],
               IF ~HasSelection THEN 100
               ELSE IF nodes[i].id \in firstOrderNodes THEN 100
               ELSE IF interoperabilityOrder = 2 /\ nodes[i].id \in secondOrderNodes
                    THEN 50
                    ELSE 10)]

styledEdges ==
    [i \in 1..Len(edges) |->
        Styled(edges[i],
               IF ~HasSelection THEN 100
               ELSE IF edges[i].id \in firstOrderEdges THEN 100
               ELSE IF interoperabilityOrder = 2 /\ edges[i].id \in secondOrderEdges
                    THEN 35
                    ELSE 5)]

MaxViewEdges == 3

nC == <<"C">>

\* the node store of a view: four nodes
ViewNodes == [i \in 1..4 |-> Node(<<nA, nB, nC, na>>[i], Def("tool"), Undefined)]

\* the edges an active edge set of a view is drawn from: source and target
ViewEdgePool ==
    {<<nA, nB>>, <<nA, nC>>, <<nA, na>>, <<nB, nC>>, <<nB, na>>, <<nC, na>>,
     <<nB, nA>>, <<na, na>>}

ViewEdge(p) == FloatingEdge(<<"e", "-">> \o p[1] \o <<"-">> \o p[2], p[1], p[2])

InitView ==
    /\ rawData = <<>>
    /\ nodes = ViewNodes
    /\ edges \in {[i \in 1..Len(ps) |-> ViewEdge(ps[i])] :
                    ps \in SeqsUpTo(ViewEdgePool, MaxViewEdges)}
    /\ edgeMode = "company"
    /\ connects = 0
    /\ lastOp = "load"
    /\ result = NoResult
    /\ ViewAtRest /\ LayoutAtRest /\ GeomAtRest /\ FilterAtRest

\* onNodeClick={(_, node) => setSelectedNodeId(node.id)}
onNodeClick(id) ==
    /\ selectedNodeId' = Def(id)
    /\ lastOp' = "nodeClick"
    /\ UNCHANGED <<rawData, nodes, edges, edgeMode, connects, result>>
    /\ UNCHANGED <<interoperabilityOrder, layoutVars, geomVars, filterVars>>

\* onPaneClick={() => setSelectedNodeId(null)}; lastOp tells whether it cleared a
\* selection
onPaneClick ==
    /\ selectedNodeId' = Undefined
    /\ lastOp' = IF IsDef(selectedNodeId) THEN "deselect" ELSE "paneClick"
    /\ UNCHANGED <<rawData, nodes, edges, edgeMode, connects, result>>
    /\ UNCHANGED <<interoperabilityOrder, layoutVars, geomVars, filterVars>>

\* setInteroperabilityOrder((prev) => (prev === 1 ? 2 : 1))
setInteroperabilityOrder ==
    /\ interoperabilityOrder' = IF interoperabilityOrder = 1 THEN 2 ELSE 1
    /\ lastOp' = "order"
    /\ UNCHANGED <<rawData, nodes, edges, edgeMode, connects, result>>
    /\ UNCHANGED <<selectedNodeId, layoutVars, geomVars, filterVars>>

\* a snapshot that neither the exposed toggle nor a requested callback refers to
\* is garbage: it is kept as the empty list
Collected(ss, exposed, callbacks) ==
    [g \in 1..Len(ss) |->
        IF g = exposed \/ \E i \in 1..Len(callbacks) : callbacks[i].gen = g
        THEN ss[g] ELSE <<>>]

\* onNodesChange / onEdgesChange with the remove changes React Flow sends when a
\* selected node is deleted with the delete key: the node and the edges connected
\* to it leave the stores, selectedNodeId is not touched; useNodesInitialized()
\* is false for an empty store
onNodesChangeRemove(id) ==
    /\ inFrame = 0
    /\ nodes' = SelectSeq(nodes, LAMBDA n : n.id # id)
    /\ edges' = SelectSeq(edges, LAMBDA e : e.source # id /\ e.target # id)
    /\ initialized' = (initialized /\ nodes' # <<>>)
    /\ memo' = IF nodes' = <<>> THEN 0 ELSE memo
    /\ snaps' = Collected(snaps, memo', frames)
    /\ lastOp' = "remove"
    /\ UNCHANGED <<rawData, edgeMode, connects, result>>
    /\ UNCHANGED <<now, runningRef, draggingNodeRef, frames, inFrame>>
    /\ UNCHANGED <<viewVars, geomVars, filterVars>>

NextView ==
    \/ \E id \in NodeIds(nodes) : onNodeClick(id)
    \/ onPaneClick
    \/ setInteroperabilityOrder
    \/ \E id \in NodeIds(nodes) : onNodesChangeRemove(id)

SpecView == InitView /\ [][NextView]_vars

-----------------------------------------------------------------------------
(* The layout driver and the node store (src/src/App.jsx, useLayoutedElements) *)

\* additions of a session of the node store, and of a session of the driver
MaxAdds == 2

MaxDriverAdds == 1

MaxClock == 1

MaxFrames == 2

\* positions are abstract points: the point a node is arranged at or dragged to
Pos == {0}

\* the point the solver's integration moves a free node to
SolverPos == 1

LayoutNode(id, label, type, position) ==
    [id |-> id, label |-> label, type |-> type, position |-> position,
     hidden |-> FALSE]

\* const getNodeId = () => `node_${+new Date()}`
getNodeId == <<"node_", ToString(now)>>

\* the type strings of the layout nodes, by their first letter
TypeChars(t) ==
    CASE t = "Company" -> <<"C">>
      [] t = "tool" -> <<"t">>
      [] t = "user" -> <<"u">>

\* a.data[arrangeBy]?.toLowerCase() || ''
SortKey(node, arrangeBy) ==
    IF arrangeBy = "label" THEN toLowerCase(node.label)
    ELSE toLowerCase(TypeChars(node.type))

\* sortedNodes of arrangeNodes(nodes, width, height, arrangeBy): a stable sort
RECURSIVE InsertBy(_, _, _)
InsertBy(sorted, node, arrangeBy) ==
    IF sorted = <<>> THEN <<node>>
    ELSE LET last == sorted[Len(sorted)]
         IN IF StrLess(SortKey(node, arrangeBy), SortKey(last, arrangeBy))
            THEN Append(InsertBy(SubSeq(sorted, 1, Len(sorted) - 1), node, arrangeBy),
                        last)
            ELSE Append(sorted, node)

RECURSIVE SortedBy(_, _)
SortedBy(ns, arrangeBy) ==
    IF ns = <<>> THEN <<>>
    ELSE InsertBy(SortedBy(SubSeq(ns, 1, Len(ns) - 1), arrangeBy), ns[Len(ns)],
                  arrangeBy)

\* the point of the circle for the node at index i
CirclePosition(i) == (i - 1) % Cardinality(Pos)

\* getNodes().map((node) => ({...node, x: node.position.x, y: node.position.y}))
Snapshot(ns) ==
    [i \in 1..Len(ns) |-> [id |-> ns[i].id, x |-> ns[i].position, fx |-> Undefined]]

\* the getNodes().forEach of toggle: Object.assign(nodes[i], node) and the position
Synced(snap) ==
    [i \in 1..Len(snap) |->
        IF i <= Len(nodes)
        THEN [snap[i] EXCEPT !.id = nodes[i].id, !.x = nodes[i].position]
        ELSE snap[i]]

\* the getNodes().forEach of tick: the snapshot entry at the store index of the
\* dragged node is fixed to the drag position, the entries at the other store
\* indices are released
Pinned(snap) ==
    [i \in 1..Len(snap) |->
        IF i <= Len(nodes)
        THEN IF IsDef(draggingNodeRef) /\ Val(draggingNodeRef).id = nodes[i].id
             THEN [snap[i] EXCEPT !.fx = Def(Val(draggingNodeRef).position)]
             ELSE [snap[i] EXCEPT !.fx = Undefined]
        ELSE snap[i]]

\* simulation.tick(): a fixed node is put at fx, a free node where the solver
\* moves it
Stepped(snap) ==
    [i \in 1..Len(snap) |->
        [snap[i] EXCEPT !.x = IF IsDef(snap[i].fx) THEN Val(snap[i].fx) ELSE SolverPos]]

\* simMap.get(id) of new Map(nodes.map(n => [n.id, n])): the last entry of the id
SimMapGet(snap, id) ==
    LET is == {i \in 1..Len(snap) : snap[i].id = id}
    IN IF is = {} THEN Undefined
       ELSE Def(snap[CHOOSE i \in is : \A j \in is : j <= i])

\* setNodes(prevNodes => applyNodeChanges(changes, prevNodes)) of tick
WrittenBack(prevNodes, snap) ==
    [i \in 1..Len(prevNodes) |->
        LET simNode == SimMapGet(snap, prevNodes[i].id)
        IN IF ~IsDef(simNode) THEN prevNodes[i]
           ELSE [prevNodes[i] EXCEPT
                    !.position = IF IsDef(Val(simNode).fx) THEN Val(Val(simNode).fx)
                                 ELSE Val(simNode).x]]

\* the node stores a session starts with
InitialStores ==
    {<<LayoutNode(nA, nA, "tool", CirclePosition(1)),
       LayoutNode(nB, nB, "Company", CirclePosition(2))>>}

InitLayout ==
    /\ rawData = <<>>
    /\ nodes \in InitialStores
    /\ edges = <<>>
    /\ edgeMode = "company"
    /\ connects = 0
    /\ lastOp = "load"
    /\ result = NoResult
    /\ ViewAtRest /\ LayoutAtRest /\ GeomAtRest /\ FilterAtRest

\* the clock moves on
clockAdvance ==
    /\ now < MaxClock
    /\ now' = now + 1
    /\ UNCHANGED <<sessionVars, viewVars, geomVars, filterVars>>
    /\ UNCHANGED <<initialized, memo, snaps, runningRef, draggingNodeRef, frames,
                   inFrame>>

\* the renderer has measured every node: useNodesInitialized() turns true and the
\* useMemo of the hook takes a snapshot and makes its tick and toggle
nodesInitialized ==
    /\ inFrame = 0
    /\ ~initialized
    /\ nodes # <<>>
    /\ initialized' = TRUE
    /\ snaps' = Append(snaps, Snapshot(nodes))
    /\ memo' = Len(snaps) + 1
    /\ lastOp' = "measured"
    /\ UNCHANGED <<rawData, nodes, edges, edgeMode, connects, result>>
    /\ UNCHANGED <<now, runningRef, draggingNodeRef, frames, inFrame>>
    /\ UNCHANGED <<viewVars, geomVars, filterVars>>

\* the additions so far: every one has been measured, which took a snapshot
Additions == Len(snaps) - 1

\* handleAddNode, behind the button shown when the hook reports initialized; the
\* new node is not measured yet
handleAddNode ==
    /\ inFrame = 0
    /\ memo # 0
    /\ nodes' = Append(nodes, LayoutNode(getNodeId, <<"r">>, "user", 0))
    /\ initialized' = FALSE
    /\ memo' = 0
    /\ snaps' = Collected(snaps, 0, frames)
    /\ lastOp' = "addNode"
    /\ UNCHANGED <<rawData, edges, edgeMode, connects, result>>
    /\ UNCHANGED <<now, runningRef, draggingNodeRef, frames, inFrame>>
    /\ UNCHANGED <<viewVars, geomVars, filterVars>>

\* handleArrange(arrangeBy): setNodes(arrangeNodes(nodes, width, height, arrangeBy))
handleArrange(arrangeBy) ==
    /\ inFrame = 0
    /\ nodes' = LET sortedNodes == SortedBy(nodes, arrangeBy)
                IN [i \in 1..Len(sortedNodes) |->
                       [sortedNodes[i] EXCEPT !.position = CirclePosition(i)]]
    /\ lastOp' = "arrange"
    /\ UNCHANGED <<rawData, edges, edgeMode, connects, result>>
    /\ UNCHANGED <<viewVars, layoutVars, geomVars, filterVars>>

\* dragEvents.start / dragEvents.drag with the node at its drag position; the node
\* store follows the drag
onNodeDrag(id, position) ==
    /\ inFrame = 0
    /\ draggingNodeRef' = Def([id |-> id, position |-> position])
    /\ nodes' = [i \in 1..Len(nodes) |->
                    IF nodes[i].id = id THEN [nodes[i] EXCEPT !.position = position]
                    ELSE nodes[i]]
    /\ lastOp' = "drag"
    /\ UNCHANGED <<rawData, edges, edgeMode, connects, result>>
    /\ UNCHANGED <<now, initialized, memo, snaps, runningRef, frames, inFrame>>
    /\ UNCHANGED <<viewVars, geomVars, filterVars>>

\* dragEvents.stop
onNodeDragStop ==
    /\ inFrame = 0
    /\ IsDef(draggingNodeRef)
    /\ draggingNodeRef' = Undefined
    /\ lastOp' = "dragStop"
    /\ UNCHANGED <<rawData, nodes, edges, edgeMode, connects, result>>
    /\ UNCHANGED <<now, initialized, memo, snaps, runningRef, frames, inFrame>>
    /\ UNCHANGED <<viewVars, geomVars, filterVars>>

\* toggle of the exposed closure; Object.assign(nodes[i], node) throws for a store
\* index the snapshot does not have
toggle ==
    /\ inFrame = 0
    /\ memo # 0
    /\ runningRef \/ Len(frames) < MaxFrames
    /\ IF ~runningRef /\ Len(nodes) > Len(snaps[memo])
       THEN /\ snaps' = [snaps EXCEPT ![memo] = Synced(snaps[memo])]
            /\ lastOp' = "toggleThrew"
            /\ UNCHANGED <<runningRef, frames>>
       ELSE /\ snaps' = IF ~runningRef
                        THEN [snaps EXCEPT ![memo] = Synced(snaps[memo])]
                        ELSE snaps
            /\ runningRef' = ~runningRef
            /\ frames' = IF ~runningRef
                         THEN Append(frames, [kind |-> "tick", gen |-> memo])
                         ELSE frames
            /\ lastOp' = "toggle"
    /\ UNCHANGED <<rawData, nodes, edges, edgeMode, connects, result>>
    /\ UNCHANGED <<now, initialized, memo, draggingNodeRef, inFrame>>
    /\ UNCHANGED <<viewVars, geomVars, filterVars>>

\* variant of CallbackTicks in which the frame callback ticks whatever the flag
CallbackTicksUngated(cb) == TRUE

\* whether a callback runs tick: window.requestAnimationFrame(tick) of toggle
\* always, the callback () => { fitView(); if (runningRef.current) tick(); } of
\* tick only while running
CallbackTicks(cb) == cb.kind = "tick" \/ runningRef

\* tick of the closure of snapshot g, with rest the callbacks still requested;
\* nodes[i].fx throws for a store index the snapshot does not have, before
\* simulation.tick()
tick(g, rest) ==
    IF Len(nodes) > Len(snaps[g])
    THEN /\ snaps' = Collected([snaps EXCEPT ![g] = Pinned(snaps[g])], memo, rest)
         /\ frames' = rest
         /\ lastOp' = "tickThrew"
         /\ UNCHANGED nodes
    ELSE LET stepped == Stepped(Pinned(snaps[g]))
         IN /\ snaps' = [snaps EXCEPT ![g] = stepped]
            /\ nodes' = WrittenBack(nodes, stepped)
            /\ frames' = Append(rest, [kind |-> "frame", gen |-> g])
            /\ lastOp' = "tick"

\* the browser runs the next callback of the frame; the callbacks requested while
\* a frame runs wait for the next frame
animationFrame ==
    /\ frames # <<>>
    /\ inFrame' = (IF inFrame = 0 THEN Len(frames) ELSE inFrame) - 1
    /\ IF CallbackTicks(Head(frames))
       THEN tick(Head(frames).gen, Tail(frames))
       ELSE /\ frames' = Tail(frames)
            /\ snaps' = Collected(snaps, memo, Tail(frames))
            /\ lastOp' = "frame"
            /\ UNCHANGED nodes
    /\ UNCHANGED <<rawData, edges, edgeMode, connects, result>>
    /\ UNCHANGED <<now, initialized, memo, runningRef, draggingNodeRef>>
    /\ UNCHANGED <<viewVars, geomVars, filterVars>>

\* a session of the node store: additions at any reading of the clock, among the
\* other events that write the store
NextNodes ==
    \/ clockAdvance
    \/ nodesInitialized
    \/ Additions < MaxAdds /\ handleAddNode
    \/ \E arrangeBy \in {"label", "type"} : handleArrange(arrangeBy)
    \/ \E id \in NodeIds(nodes), position \in Pos : onNodeDrag(id, position)
    \/ onNodeDragStop
    \/ \E id \in NodeIds(nodes) : onNodesChangeRemove(id)

SpecNodes == InitLayout /\ [][NextNodes]_vars

\* a session of the driver
NextLayout ==
    \/ nodesInitialized
    \/ Additions < MaxDriverAdds /\ handleAddNode
    \/ \E arrangeBy \in {"label", "type"} : handleArrange(arrangeBy)
    \/ \E id \in NodeIds(nodes), position \in Pos : onNodeDrag(id, position)
    \/ onNodeDragStop
    \/ \E id \in NodeIds(nodes) : onNodesChangeRemove(id)
    \/ toggle
    \/ animationFrame

SpecLayout == InitLayout /\ [][NextLayout]_vars

\* the events that decide whether the driver ticks: what starts and stops it, what
\* changes the length of the node store, and the frames
NextDriver ==
    \/ nodesInitialized
    \/ Additions < MaxDriverAdds /\ handleAddNode
    \/ \E id \in NodeIds(nodes) : onNodesChangeRemove(id)
    \/ toggle
    \/ animationFrame

\* the browser keeps running the requested frame callbacks
SpecLayoutLive == InitLayout /\ [][NextDriver]_vars /\ WF_vars(animationFrame)

-----------------------------------------------------------------------------
(* Side classification (src/src/utils.js, getEdgePosition) *)

\* Coordinates and sizes are counted in half pixels, so that a node position, a
\* measured size or an intersection point may fall between two pixels.

\* Math.round of v half pixels, in pixels: the nearest integer, a half rounded up
Round(v) == (v + 1) \div 2

\* variant of getEdgePosition with a tolerance of 2px
getEdgePositionWideTolerance(node, intersectionPoint) ==
    LET nx == Round(node.x)
        ny == Round(node.y)
        px == Round(intersectionPoint.x)
        py == Round(intersectionPoint.y)
    IN IF px <= nx + 2 THEN "left"
       ELSE IF 2 * px >= 2 * nx + node.width - 4 THEN "right"
       ELSE IF py <= ny + 2 THEN "top"
       ELSE IF 2 * py >= node.y + node.height - 4 THEN "bottom"
       ELSE "top"

\* getEdgePosition(node, intersectionPoint); the comparisons with the measured
\* width and height are written in half pixels, and the last one starts from n.y
\* as it is, not from ny
getEdgePosition(node, intersectionPoint) ==
    LET nx == Round(node.x)
        ny == Round(node.y)
        px == Round(intersectionPoint.x)
        py == Round(intersectionPoint.y)
    IN IF px <= nx + 1 THEN "left"
       ELSE IF 2 * px >= 2 * nx + node.width - 2 THEN "right"
       ELSE IF py <= ny + 1 THEN "top"
       ELSE IF 2 * py >= node.y + node.height - 2 THEN "bottom"
       ELSE "top"

\* the rectangles and the points of the calls, in half pixels
GeomNodes ==
    [x : {-3, -2, 0}, y : {-2, 1, 2}, width : {5, 6, 8, 9, 10}, height : {5, 6, 8, 10}]

GeomPoints(node) ==
    [x : (node.x - 3)..(node.x + node.width + 3),
     y : (node.y - 3)..(node.y + node.height + 3)]

InitGeom ==
    /\ rawData = <<>>
    /\ nodes = <<>>
    /\ edges = <<>>
    /\ edgeMode = "company"
    /\ connects = 0
    /\ lastOp = "input"
    /\ result = NoResult
    /\ ViewAtRest /\ LayoutAtRest /\ FilterAtRest
    /\ \E node \in GeomNodes :
          geom \in {[node |-> node, intersectionPoint |-> point, side |-> ""] :
                      point \in GeomPoints(node)}

CallGetEdgePosition ==
    /\ lastOp = "input"
    /\ geom' = [geom EXCEPT !.side = getEdgePosition(geom.node, geom.intersectionPoint)]
    /\ lastOp' = "classified"
    /\ UNCHANGED <<rawData, nodes, edges, edgeMode, connects, result>>
    /\ UNCHANGED <<viewVars, layoutVars, filterVars>>

NextGeom == CallGetEdgePosition

SpecGeom == InitGeom /\ [][NextGeom]_vars

-----------------------------------------------------------------------------
(* The type filter (src/src/App.jsx, toggleType and its effect) *)

\* additions of a session with the type filter
MaxFilterAdds == 1

\* prevNodes.map((node) => ({...node, hidden: !activeTypes.has(node.data.type)}))
HiddenByType(ns, active) ==
    [i \in 1..Len(ns) |-> [ns[i] EXCEPT !.hidden = ns[i].type \notin active]]

\* nodeTypeMap.get(id) of the map filled by updatedNodes.forEach: the type of the
\* last node of the id, undefined for an id no node has
NodeTypeMapGet(ns, id) ==
    LET is == {i \in 1..Len(ns) : ns[i].id = id}
    IN IF is = {} THEN Undefined
       ELSE ns[CHOOSE i \in is : \A j \in is : j <= i].type

\* prevEdges.map: visible only if the types of both endpoints are active
HiddenByEndpoints(es, ns, active) ==
    [i \in 1..Len(es) |->
        LET sourceType == NodeTypeMapGet(ns, es[i].source)
            targetType == NodeTypeMapGet(ns, es[i].target)
            visible == sourceType \in active /\ targetType \in active
        IN [es[i] EXCEPT !.hidden = ~visible]]

\* toggleType(type) of a button of the TypeFilterPanel, and the effect of
\* [activeTypes] that runs after it
toggleType(type) ==
    /\ activeTypes' = IF type \in activeTypes THEN activeTypes \ {type}
                      ELSE activeTypes \cup {type}
    /\ nodes' = HiddenByType(nodes, activeTypes')
    /\ edges' = HiddenByEndpoints(edges, nodes', activeTypes')
    /\ lastOp' = "toggleType"
    /\ UNCHANGED <<rawData, edgeMode, connects, result>>
    /\ UNCHANGED <<viewVars, layoutVars, geomVars>>

\* the nodes of type "user" in the store
UserNodes == {i \in 1..Len(nodes) : nodes[i].type = Def("user")}

\* handleAddNode in the fields the session keeps of a node: the new node has type
\* "user", no designtechs and no hidden field
handleAddNodeInSession ==
    /\ Cardinality(UserNodes) < MaxFilterAdds
    /\ nodes' = Append(nodes, [Node(getNodeId, Def("user"), Undefined)
                                  EXCEPT !.label = <<"r">>])
    /\ lastOp' = "addNode"
    /\ UNCHANGED <<rawData, edges, edgeMode, connects, result>>
    /\ UNCHANGED <<viewVars, layoutVars, geomVars, filterVars>>

\* a session with the type filter
NextFilter ==
    \/ \E type \in allTypes : toggleType(type)
    \/ toggleEdgeMode
    \/ handleAddNodeInSession

SpecFilter == Init /\ [][NextFilter]_vars

-----------------------------------------------------------------------------
(* Properties of the edge builders, over the direct calls of SpecBuild *)

Built == lastOp = "built"

EdgePair(e) == {e.source, e.target}

\* the kind "company" as the dataset spells it
KindCompany(node) == IsDef(node.type) /\ Val(node.type) \in {"company", "Company"}

HasOverride(node) == IsDef(node.designtechs) /\ Val(node.designtechs) # <<>>

Eligible(ns, from, to) == to \in NodeIds(ns) /\ to # from

Smaller(a, b) == IF StrLess(a, b) THEN a ELSE b

Larger(a, b) == IF StrLess(a, b) THEN b ELSE a

CanonicalId(e) ==
    e.id = <<"e", "-">> \o Smaller(e.source, e.target) \o <<"-">>
              \o Larger(e.source, e.target)

OnePerPair(es) ==
    \A i, j \in 1..Len(es) : i # j => EdgePair(es[i]) # EdgePair(es[j])

Touching(es, n) == {i \in 1..Len(es) : es[i].source = n \/ es[i].target = n}

RECURSIVE SumOver(_, _)
SumOver(f, S) ==
    IF S = {} THEN 0
    ELSE LET x == CHOOSE y \in S : TRUE IN f[x] + SumOver(f, S \ {x})

\* C1: a builder returns at most one edge per unordered pair of node ids, and the
\* edge's id is e-<smaller id>-<larger id> in string order, whether the pair is
\* implied once, several times or in both directions.
C1_UndirectedDedup ==
    Built =>
        /\ OnePerPair(result.edges)
        /\ \A e \in Elems(result.edges) : CanonicalId(e)

\* two companies that list each other, one of them twice, and the single edge e-A-B
C1_Witness ==
    /\ Built
    /\ \E i, j \in 1..Len(nodes) :
          /\ nodes[i].id = nA /\ KindCompany(nodes[i])
          /\ nodes[i].designtechs = Def(<<nB, nB>>)
          /\ nodes[j].id = nB /\ KindCompany(nodes[j])
          /\ nodes[j].designtechs = Def(<<na, nA>>)
          /\ i > j
    /\ \E e \in Elems(result.edges) :
          e.id = <<"e", "-", "A", "-", "B">> /\ e.source = nB /\ e.target = nA

\* C2: every returned edge joins two different nodes of the node list; a name that
\* is the originating node's own id or is absent from the node list gives no edge.
C2_SelfUnknownFiltered ==
    Built =>
        \A e \in Elems(result.edges) :
            /\ e.source # e.target
            /\ e.source \in NodeIds(nodes)
            /\ e.target \in NodeIds(nodes)

\* a company lists itself and a name that is no node, and another edge is built
C2_Witness ==
    /\ Built
    /\ \E n \in Elems(nodes) :
          /\ KindCompany(n) /\ HasOverride(n)
          /\ n.id \in Elems(Val(n.designtechs))
    /\ \E n \in Elems(nodes) :
          /\ KindCompany(n) /\ HasOverride(n)
          /\ \E t \in Elems(Val(n.designtechs)) : t \notin NodeIds(nodes)
    /\ result.edges # <<>>

\* C3: connectionCount[n] is the number of returned edges with n as source or
\* target, ids touched by no edge have no entry, and the values sum to twice the
\* number of edges.
C3_DegreeConsistency ==
    Built =>
        LET cc == result.connectionCount
            es == result.edges
        IN /\ DOMAIN cc = {n \in NamePool : Touching(es, n) # {}}
           /\ \A n \in DOMAIN cc : cc[n] = Cardinality(Touching(es, n))
           /\ SumOver(cc, DOMAIN cc) = 2 * Len(es)

\* two edges that share a node, which gets the count 2
C3_Witness ==
    /\ Built
    /\ Len(result.edges) >= 2
    /\ \E n \in DOMAIN result.connectionCount : result.connectionCount[n] = 2

\* C4: in usage mode every returned edge has a company node as its source; a
\* non-company node originates nothing, whatever lists it carries.
C4_OnlyCompaniesOriginate ==
    (Built /\ edgeMode = "company") =>
        \A e \in Elems(result.edges) :
            \E n \in Elems(nodes) : n.id = e.source /\ KindCompany(n)

\* a tool node with an override list naming another node, and no edge between them
C4_Witness ==
    /\ Built /\ edgeMode = "company"
    /\ result.edges # <<>>
    /\ \E n \in Elems(nodes) :
          /\ ~KindCompany(n) /\ HasOverride(n)
          /\ \E t \in Elems(Val(n.designtechs)) :
                /\ Eligible(nodes, n.id, t)
                /\ \A e \in Elems(result.edges) : EdgePair(e) # {n.id, t}

\* C5: in interoperability mode no returned edge has a company node as its source
\* or as its target.
C5_NoCompanyEndpoint ==
    (Built /\ edgeMode = "interoperability") =>
        \A e \in Elems(result.edges) :
            \A n \in Elems(nodes) :
                n.id \in {e.source, e.target} => ~KindCompany(n)

\* the list C6 says a company's edges come from
ChosenList(node, data) ==
    IF HasOverride(node) THEN Val(node.designtechs)
    ELSE MapGetOrEmpty(DesignMap(data), node.id)

\* C6: a company's edges come from its override list when that list is non-empty
\* and from the dataset's usage mapping otherwise; the dataset list plays no part
\* when the override is non-empty.
C6_OverridePreferred ==
    (Built /\ edgeMode = "company") =>
        /\ \A e \in Elems(result.edges) :
              \E n \in Elems(nodes) :
                  /\ n.id = e.source /\ KindCompany(n)
                  /\ e.target \in Elems(ChosenList(n, rawData))
        /\ \A n \in Elems(nodes) :
              KindCompany(n) =>
                  \A t \in Elems(ChosenList(n, rawData)) :
                      Eligible(nodes, n.id, t) =>
                          \E e \in Elems(result.edges) : e.id = EdgeId(n.id, t)

\* a company whose override names only absent nodes while its dataset list names
\* a present one: it gets no edge
C6_Witness ==
    /\ Built /\ edgeMode = "company"
    /\ \E n \in Elems(nodes) :
          /\ KindCompany(n) /\ HasOverride(n)
          /\ \A t \in Elems(Val(n.designtechs)) : ~Eligible(nodes, n.id, t)
          /\ \E t \in Elems(MapGetOrEmpty(DesignMap(rawData), n.id)) :
                Eligible(nodes, n.id, t)
          /\ Touching(result.edges, n.id) = {}
    /\ \E n \in Elems(nodes) : KindCompany(n) /\ ~HasOverride(n)
                                /\ Touching(result.edges, n.id) # {}

\* C7: for a company without override list, a tool listed in any dataset record of
\* the company's Name yields an edge (the usage mapping is the union over the
\* records sharing the Name).
C7_UnionOfRecords ==
    (Built /\ edgeMode = "company") =>
        \A n \in Elems(nodes) :
            (KindCompany(n) /\ ~HasOverride(n)) =>
                \A k \in 1..Len(rawData) :
                    (rawData[k].Name = n.id /\ IsDef(rawData[k].Designtechs)) =>
                        \A t \in Elems(Val(rawData[k].Designtechs)) :
                            Eligible(nodes, n.id, t) =>
                                \E e \in Elems(result.edges) : EdgePair(e) = {n.id, t}

-----------------------------------------------------------------------------
(* Properties of the session, over Spec *)

BuiltFor(mode) ==
    IF mode = "company" THEN buildCompanyEdges(nodes, rawData)
    ELSE buildInteroperabilityEdges(nodes, rawData)

\* C8: after a mode toggle the active edge set is exactly the edge list the builder
\* of the new mode returns for the current nodes; nothing of the edge set before
\* the toggle remains beside it.
C8_ModeExclusive ==
    lastOp = "toggle" => edges = BuiltFor(edgeMode).edges

\* a toggle to interoperability mode after a user connect, in a session whose
\* initial load had edges: the active set holds interoperability edges only
C8_Witness ==
    /\ lastOp = "toggle"
    /\ edgeMode = "interoperability"
    /\ connects > 0
    /\ initialElements(rawData).edges # <<>>
    /\ edges # <<>>
    /\ \A e \in Elems(edges) : e \notin Elems(initialElements(rawData).edges)

\* C9: after the initial load, a mode toggle or a user connect, every node's size
\* is the number of active edges touching it, or 1 when none does.
C9_SizeFollowsEdges ==
    lastOp \in {"load", "toggle", "connect"} =>
        \A n \in Elems(nodes) :
            n.size = Def(IF Touching(edges, n.id) = {} THEN 1
                         ELSE Cardinality(Touching(edges, n.id)))

\* C10: from the initial load on and after any sequence of mode toggles, every
\* active edge has the id e-<smaller id>-<larger id> and no two active edges join
\* the same unordered pair.
C10_CanonicalEdgeIds ==
    connects = 0 =>
        /\ \A e \in Elems(edges) : CanonicalId(e)
        /\ OnePerPair(edges)

-----------------------------------------------------------------------------
(* Properties of the neighbourhood highlighting, over SpecView *)

\* the active edges with s as source or target
DirectEdges(s) == {e \in Elems(edges) : e.source = s \/ e.target = s}

\* the active edges that are not direct and have an endpoint among the nodes F
IndirectEdges(s, F) ==
    {e \in Elems(edges) \ DirectEdges(s) : e.source \in F \/ e.target \in F}

Endpoints(es) == UNION {{e.source, e.target} : e \in es}

\* C12: with a selected id s, firstOrderEdges is the set of ids of the active edges
\* with s as source or target and firstOrderNodes is the set of their endpoints,
\* s included when there is such an edge; when no edge touches s (also when s is
\* the id of no node) both sets are empty.
C12_FirstHopExact ==
    IsDef(selectedNodeId) =>
        LET s == Val(selectedNodeId)
        IN /\ firstOrderEdges = {e.id : e \in DirectEdges(s)}
           /\ firstOrderNodes = Endpoints(DirectEdges(s))
           /\ (DirectEdges(s) # {} => s \in firstOrderNodes)
           /\ (DirectEdges(s) = {} => firstOrderEdges = {} /\ firstOrderNodes = {})

\* a selected node that is the target of one edge, with another edge not touching it
C12_Witness ==
    /\ IsDef(selectedNodeId)
    /\ \E e \in Elems(edges) :
          e.target = Val(selectedNodeId) /\ e.source # Val(selectedNodeId)
    /\ Elems(edges) \ DirectEdges(Val(selectedNodeId)) # {}
    /\ Cardinality(firstOrderNodes) >= 2

\* C13: with hop limit 2, secondOrderEdges is the set of ids of the edges that are
\* not first-hop and have an endpoint in firstOrderNodes, and secondOrderNodes is
\* the set of their endpoints outside firstOrderNodes; second-hop and first-hop
\* sets are disjoint; with hop limit 1 the second-hop sets are empty.
C13_SecondHopExact ==
    IsDef(selectedNodeId) =>
        LET indirect == IndirectEdges(Val(selectedNodeId), firstOrderNodes)
        IN /\ interoperabilityOrder = 2 =>
                 /\ secondOrderEdges = {e.id : e \in indirect}
                 /\ secondOrderNodes = Endpoints(indirect) \ firstOrderNodes
           /\ interoperabilityOrder = 1 =>
                 secondOrderEdges = {} /\ secondOrderNodes = {}
           /\ secondOrderNodes \cap firstOrderNodes = {}
           /\ secondOrderEdges \cap firstOrderEdges = {}

\* hop limit 2 and an indirect edge from a first-hop node to a second-hop node
C13_Witness ==
    /\ IsDef(selectedNodeId)
    /\ interoperabilityOrder = 2
    /\ \E e \in IndirectEdges(Val(selectedNodeId), firstOrderNodes) :
          \/ e.source \in firstOrderNodes /\ e.target \in secondOrderNodes
          \/ e.target \in firstOrderNodes /\ e.source \in secondOrderNodes

\* C14: with nothing selected the four neighbourhood sets are empty and every node
\* and every edge is rendered with opacity 1 and not dimmed, whatever the edge set
\* and the hop limit, also after a pane click has cleared a selection.
C14_NoSelectionNoDimming ==
    ~IsDef(selectedNodeId) =>
        /\ firstOrderNodes = {} /\ firstOrderEdges = {}
        /\ secondOrderNodes = {} /\ secondOrderEdges = {}
        /\ \A i \in 1..Len(nodes) :
              styledNodes[i].opacity = 100 /\ ~styledNodes[i].isDimmed
        /\ \A i \in 1..Len(edges) :
              styledEdges[i].opacity = 100 /\ ~styledEdges[i].isDimmed

\* a pane click has just cleared a selection, with hop limit 2 and active edges
C14_Witness ==
    /\ lastOp = "deselect"
    /\ ~IsDef(selectedNodeId)
    /\ interoperabilityOrder = 2
    /\ edges # <<>>
    /\ nodes # <<>>

\* C15: with a node selected, the selected node and the first-hop nodes are
\* rendered at opacity 1 and not dimmed, the second-hop nodes at 0.5 and all other
\* nodes at 0.1; the selected node is at full weight also when no edge touches it.
C15_Precedence ==
    IsDef(selectedNodeId) =>
        \A i \in 1..Len(nodes) :
            LET n == styledNodes[i]
            IN IF n.id = Val(selectedNodeId) \/ n.id \in firstOrderNodes
               THEN n.opacity = 100 /\ ~n.isDimmed
               ELSE IF n.id \in secondOrderNodes
                    THEN n.opacity = 50 /\ n.isDimmed
                    ELSE n.opacity = 10 /\ n.isDimmed

-----------------------------------------------------------------------------
(* Properties of the node store, over SpecNodes *)

\* C11: in every state of a session no two nodes of the node store share an id,
\* whatever additions, at whatever readings of the clock, and other events led to
\* it.
C11_UniqueNodeIds ==
    \A i, j \in 1..Len(nodes) : i # j => nodes[i].id # nodes[j].id

-----------------------------------------------------------------------------
(* Properties of the layout driver, over SpecLayout and SpecLayoutLive *)

\* the snapshot of the tick that ran last: tick requested the last frame callback
LastTicked == snaps[frames[Len(frames)].gen]

\* C16: every toggle flips the driver between idle and running, and once the driver
\* stays idle the requested callbacks run out: from some point on no callback is
\* requested, so no further solver step is executed.
C16_TicksStopWhenIdle ==
    /\ [][lastOp' = "toggle" => runningRef' = ~runningRef]_vars
    /\ <>[](~runningRef) => <>[](frames = <<>>)

\* the driver is idle, a frame callback has found the flag false after a tick, and
\* no callback is requested any more
C16_Witness ==
    /\ ~runningRef
    /\ lastOp = "frame"
    /\ frames = <<>>
    /\ initialized

\* C17: a solver step (simulation.tick and the write-back) is executed only while
\* the driver is running.
C17_StepOnlyWhileRunning == lastOp = "tick" => runningRef

\* C18: after a tick with a node d being dragged, the stored position of d is the
\* drag position and d is the only node the solver holds fixed; after a tick with
\* no node being dragged the solver holds no node fixed.
C18_DragPinsOnlyDragged ==
    lastOp = "tick" =>
        IF IsDef(draggingNodeRef)
        THEN LET d == Val(draggingNodeRef)
             IN /\ \A n \in Elems(nodes) : n.id = d.id => n.position = d.position
                /\ \A sim \in Elems(LastTicked) : IsDef(sim.fx) => sim.id = d.id
                /\ d.id \in NodeIds(nodes) =>
                      \E sim \in Elems(LastTicked) : sim.id = d.id /\ IsDef(sim.fx)
        ELSE \A sim \in Elems(LastTicked) : ~IsDef(sim.fx)

\* C19: while useNodesInitialized() is false (nodes not measured, or the node store
\* empty) no toggle is exposed and no solver step is executed.
C19_NoStepUninitialized ==
    ~initialized => (memo = 0 /\ lastOp # "tick")

\* the requested callbacks that run tick if the flag stays as it is
PendingTicks == {i \in 1..Len(frames) : CallbackTicks(frames[i])}

\* a frame has run all its callbacks: the callbacks requested now are the ones the
\* ticks of this frame requested, one for every solver step of the frame
FrameDone == inFrame = 0 /\ lastOp \in {"tick", "tickThrew", "frame"}

\* C21: at any time at most one requested callback is going to run tick, whatever
\* toggles and frames came before (running, idle, running within one frame
\* included), and a frame executes at most one solver step.
C21_OneTickChain ==
    /\ Cardinality(PendingTicks) <= 1
    /\ FrameDone => Len(frames) <= 1

-----------------------------------------------------------------------------
(* Properties of the side classification, over the direct calls of SpecGeom *)

Classified == lastOp = "classified"

\* a whole number of pixels
Whole(v) == v % 2 = 0

\* the point lies on the given side of the rectangle
OnSide(node, point, side) ==
    LET inX == node.x <= point.x /\ point.x <= node.x + node.width
        inY == node.y <= point.y /\ point.y <= node.y + node.height
    IN CASE side = "left" -> point.x = node.x /\ inY
         [] side = "right" -> point.x = node.x + node.width /\ inY
         [] side = "top" -> point.y = node.y /\ inX
         [] side = "bottom" -> point.y = node.y + node.height /\ inX

\* more than 1px (2 half pixels) from every corner
FarFromCorners(node, point) ==
    \A cx \in {node.x, node.x + node.width}, cy \in {node.y, node.y + node.height} :
        (point.x - cx) * (point.x - cx) + (point.y - cy) * (point.y - cy) > 2 * 2

\* the rounded point is more than 1px inside every bound the code compares with
WellInside(node, point) ==
    /\ Round(point.x) > Round(node.x) + 1
    /\ 2 * Round(point.x) < 2 * Round(node.x) + node.width - 2
    /\ Round(point.y) > Round(node.y) + 1
    /\ 2 * Round(point.y) < node.y + node.height - 2

\* C20: for a rectangle at a whole-pixel position with width and height of at least
\* 3px and a whole-pixel point on its boundary more than 1px from every corner,
\* getEdgePosition returns the side the point lies on; the vertical sides are
\* tested first, so a corner point of such a rectangle is left or right; a point
\* that matches no test gives top.
C20_SideOfBoundaryPoint ==
    Classified =>
        LET node == geom.node
            point == geom.intersectionPoint
        IN /\ (/\ Whole(node.x) /\ Whole(node.y)
               /\ node.width >= 6 /\ node.height >= 6
               /\ Whole(point.x) /\ Whole(point.y)) =>
                  \A side \in {"left", "right", "top", "bottom"} :
                      OnSide(node, point, side) =>
                          /\ FarFromCorners(node, point) => geom.side = side
                          /\ side \in {"left", "right"} => geom.side = side
           /\ WellInside(node, point) => geom.side = "top"

\* a whole-pixel point on the bottom side of a rectangle 4px wide and 3px high,
\* 2px from the nearest corner, classified as bottom
C20_Witness ==
    /\ Classified
    /\ Whole(geom.node.x) /\ Whole(geom.node.y)
    /\ geom.node.width = 8 /\ geom.node.height = 6
    /\ Whole(geom.intersectionPoint.x) /\ Whole(geom.intersectionPoint.y)
    /\ OnSide(geom.node, geom.intersectionPoint, "bottom")
    /\ FarFromCorners(geom.node, geom.intersectionPoint)
    /\ geom.side = "bottom"

-----------------------------------------------------------------------------
(* Properties of the type filter, over SpecFilter *)

\* the types of the nodes an edge endpoint names, undefined if no node has the id
TypesOf(id) ==
    IF id \in NodeIds(nodes) THEN {n.type : n \in {m \in Elems(nodes) : m.id = id}}
    ELSE {Undefined}

\* some endpoint of the edge has a type that is not active, for the nodes it names
SomeEndpointInactive(e) ==
    \E t \in TypesOf(e.source) \cup TypesOf(e.target) : t \notin activeTypes

\* both endpoints of the edge have an active type, for some nodes it names
BothEndpointsActive(e) ==
    /\ \E t \in TypesOf(e.source) : t \in activeTypes
    /\ \E t \in TypesOf(e.target) : t \in activeTypes

\* C22: in every state of a session with type-filter toggles, mode toggles and
\* node additions, a node is hidden exactly if its type is not active, and an edge
\* is hidden exactly if the type of one of its endpoints is not active.
C22_FilterConsistent ==
    /\ \A n \in Elems(nodes) : n.hidden <=> n.type \notin activeTypes
    /\ \A e \in Elems(edges) :
          /\ e.hidden => SomeEndpointInactive(e)
          /\ ~e.hidden => BothEndpointsActive(e)

====
